---------------------------- MODULE Spec2Model ----------------------------
(***************************************************************************)
(* Model of checksum_boto.py: a tool that lists the objects of a bucket,   *)
(* and, on a thread pool, writes for every listed object K that has no     *)
(* sibling K.md5 a checksum record K.md5 holding the MD5 of K's content.   *)
(*                                                                         *)
(* Strings are sequences of one-character strings, so that lower(),        *)
(* endswith() and the f-strings of the source are computed, not assumed.   *)
(* Object bodies are sequences of byte values.                             *)
(***************************************************************************)
EXTENDS Integers, Sequences, FiniteSets, TLC

(***************************************************************************)
(* Bounds of the model.                                                    *)
(***************************************************************************)
\* The largest args.threads: the number of worker threads of the pool.
Threads == 2
\* The longest content of the data object whose content varies.
MaxLen == 3
\* The number of transport failures injected in an execution over a bucket
\* of several objects.
MaxFaults == 1
\* The number of transport failures injected in an execution over a bucket
\* with one object to process: enough to use up the attempts of a call.
MaxCallFaults == 5
\* The number of transport failures injected in a timed execution.
RateFaults == 1
\* The resolution of the clock: its ticks in one second.
TicksPerSecond == 32
\* The number of keys the store returns in one page of a listing.
PageSize == 3

(***************************************************************************)
(* Program constants.                                                      *)
(***************************************************************************)
\* GET_LIMIT = 16: store operations per second.
GET_LIMIT == 16
\* stop_after_attempt(5).
MaxAttempts == 5
\* file_stream.read(1024 * 1024): the chunk size, counted in units of
\* 512 KiB (a byte of the model stands for one such unit).
ChunkSize == 2
\* time.sleep(1 / GET_LIMIT), in ticks.
SleepTicks == TicksPerSecond \div GET_LIMIT

(***************************************************************************)
(* Characters and strings.                                                 *)
(***************************************************************************)
\* The code points of the characters that occur in keys and records.
Ord(c) ==
    CASE c = "\n" -> 10 [] c = " " -> 32 [] c = "." -> 46
      [] c = "0" -> 48 [] c = "1" -> 49 [] c = "2" -> 50 [] c = "3" -> 51
      [] c = "4" -> 52 [] c = "5" -> 53 [] c = "6" -> 54 [] c = "7" -> 55
      [] c = "8" -> 56 [] c = "9" -> 57
      [] c = "C" -> 67 [] c = "F" -> 70 [] c = "K" -> 75 [] c = "P" -> 80
      [] c = "a" -> 97 [] c = "b" -> 98 [] c = "c" -> 99 [] c = "d" -> 100
      [] c = "e" -> 101 [] c = "f" -> 102 [] c = "g" -> 103 [] c = "i" -> 105
      [] c = "k" -> 107 [] c = "m" -> 109 [] c = "n" -> 110 [] c = "p" -> 112
      [] c = "x" -> 120

\* str.lower() on one character.
LowerChar(c) ==
    CASE c = "C" -> "c" [] c = "F" -> "f" [] c = "K" -> "k" [] c = "P" -> "p"
      [] OTHER -> c

\* str.lower().
lower(s) == [i \in 1..Len(s) |-> LowerChar(s[i])]

\* str.endswith(suffix) for one suffix.
endswith1(s, suffix) ==
    /\ Len(s) >= Len(suffix)
    /\ SubSeq(s, Len(s) - Len(suffix) + 1, Len(s)) = suffix

\* str.endswith(tuple): true when s ends with one of the suffixes.
endswith(s, suffixes) == \E suffix \in suffixes : endswith1(s, suffix)

\* str.startswith(prefix): the store's Prefix filter.
startswith(s, prefix) ==
    /\ Len(s) >= Len(prefix)
    /\ SubSeq(s, 1, Len(prefix)) = prefix

\* str.encode(): the bytes of a string as the store keeps them.
encode(s) == [i \in 1..Len(s) |-> Ord(s[i])]

\* Extensions to skip.
SKIP_EXTENSIONS ==
    { <<".", "p", "f", "k">>,
      <<".", "p", "e", "k">>,
      <<".", "c", "f", "a">>,
      <<".", "m", "p", "e", "g", "i", "n", "d", "e", "x">> }

\* tuple(SKIP_EXTENSIONS)
tuple_of_skip_extensions == SKIP_EXTENSIONS

\* md5_key = f"{object_key}.md5"
md5_key(object_key) == object_key \o <<".", "m", "d", "5">>

(***************************************************************************)
(* The order in which the store lists keys: by code points.                *)
(***************************************************************************)
RECURSIVE KeyLess(_, _)
KeyLess(k1, k2) ==
    IF k1 = << >> THEN k2 # << >>
    ELSE IF k2 = << >> THEN FALSE
    ELSE IF Ord(Head(k1)) # Ord(Head(k2)) THEN Ord(Head(k1)) < Ord(Head(k2))
    ELSE KeyLess(Tail(k1), Tail(k2))

MinKey(S) == CHOOSE k \in S : \A o \in S : o = k \/ KeyLess(k, o)

RECURSIVE SortedKeys(_)
SortedKeys(S) ==
    IF S = {} THEN << >>
    ELSE LET k == MinKey(S) IN <<k>> \o SortedKeys(S \ {k})

(***************************************************************************)
(* hashlib.md5, as a running hash over bytes with a hex digest.  The       *)
(* digest is one byte wide here (two hex digits).                          *)
(***************************************************************************)
HashMod == 256
HexDigits ==
    <<"0", "1", "2", "3", "4", "5", "6", "7", "8", "9", "a", "b", "c", "d", "e", "f">>

\* hashlib.md5()
md5_new == 7

\* md5.update(chunk)
RECURSIVE md5_update(_, _)
md5_update(h, chunk) ==
    IF chunk = << >> THEN h
    ELSE md5_update((h * 31 + Head(chunk) + 1) % HashMod, Tail(chunk))

\* md5.hexdigest()
hexdigest(h) == <<HexDigits[(h \div 16) + 1], HexDigits[(h % 16) + 1]>>

\* file_stream.read(amt): the next amt bytes of what is left, fewer at the end.
read(rest, amt) == SubSeq(rest, 1, IF Len(rest) < amt THEN Len(rest) ELSE amt)

\* A loop that hashes the first chunk only.
hash_first_chunk(md5, rest) == md5_update(md5, read(rest, ChunkSize))

\* calc_hash_md5's loop, from the state md5 with `rest` still in the stream.
RECURSIVE hash_loop(_, _)
hash_loop(md5, rest) ==
    LET chunk == read(rest, ChunkSize) IN
    IF chunk = << >> THEN md5
    ELSE hash_loop(md5_update(md5, chunk),
                   SubSeq(rest, Len(chunk) + 1, Len(rest)))

\* calc_hash_md5(file_stream, file_size) for a stream that delivers `content`.
calc_hash_md5(content) == hexdigest(hash_loop(md5_new, content))

\* f"{md5_hash}  {object_key}\n"
record_body(md5_hash, object_key) ==
    md5_hash \o <<" ", " ">> \o object_key \o <<"\n">>


(***************************************************************************)
(* The bucket at the start of a run.                                       *)
(***************************************************************************)
KEY_A == <<"a">>
KEY_B == <<"b">>
KEY_X == <<"c", ".", "P", "F", "K">>

\* The contents the data object "a" may have.
Contents == UNION { [1..n -> {0, 1}] : n \in 0..MaxLen }

\* The content of the other data objects.
FixedContent == <<1, 0, 1>>

\* A checksum record as an earlier run of the tool wrote it.
RecordOf(object_key, content) ==
    encode(record_body(calc_hash_md5(content), object_key))

\* The objects a bucket may hold besides "a" and "c.PFK".
OptionalKeys == {KEY_B, md5_key(KEY_B), md5_key(KEY_X)}

\* The bucket holding "a" with content c, "c.PFK", and the optional keys S.
Bucket(c, S) ==
    [k \in {KEY_A, KEY_X} \cup S |->
        IF k = KEY_A THEN c
        ELSE IF k = md5_key(KEY_A) THEN RecordOf(KEY_A, c)
        ELSE IF k = md5_key(KEY_B) THEN RecordOf(KEY_B, FixedContent)
        ELSE IF k = md5_key(KEY_X) THEN RecordOf(KEY_X, FixedContent)
        ELSE FixedContent]

\* args.prefix
Prefixes == {<< >>, <<"c">>}

(***************************************************************************)
(* Exceptions.                                                             *)
(***************************************************************************)
\* botocore.exceptions.ClientError, by e.response['Error']['Code'].
ClientErrors == {"404", "NoSuchKey", "SlowDown", "AccessDenied"}
\* An exception of the transport that is no ClientError (a connection error).
OtherErrors == {"ConnErr"}
\* tenacity.RetryError, raised when the attempts are used up.
RetryError == "RetryError"
\* Every subclass of Exception that can reach process_file's handler.
Exceptions == ClientErrors \cup OtherErrors \cup {RetryError}

\* The failures the transport may answer with whatever the bucket holds.
InjectedErrors == {"SlowDown", "AccessDenied", "ConnErr"}

VARIABLES
    store,      \* the bucket: key -> body, over the keys that exist
    prefix,     \* args.prefix
    threads,    \* args.threads
    main_pc,    \* where main() is: "list", "submit", "pool", "done", "aborted"
    token,      \* the paginator's continuation: the last key listed
    all_files,  \* the keys list_files has yielded so far
    tasks,      \* futures: one record per submitted process_file call
    calls,      \* the transport calls this run has issued: <<operation, key>>
    faults,     \* the number of failures the transport may still answer with
    run,        \* the number of the current run of the tool
    runs_left,  \* how many more times the tool is run after this run
    prev,       \* the states in which the tasks of the previous run ended
    callbacks,  \* the futures main has called add_done_callback on so far
    job_pbar,   \* job_pbar.n, the count of the progress bar
    other,      \* a second process of the tool on the same bucket, if any
    timer,      \* per thread, the ticks its current sleep still lasts
    slept,      \* the tasks that have slept for their next get or put call
    since,      \* the ticks since the last get, put or list call, capped
    min_gap     \* the least spacing seen between two such calls, capped

pvars == <<store, prefix, threads, main_pc, token, all_files, tasks, calls, faults,
           run, runs_left, prev, callbacks, job_pbar>>
tvars == <<timer, slept, since, min_gap>>
vars == <<store, prefix, threads, main_pc, token, all_files, tasks, calls, faults,
          run, runs_left, prev, callbacks, job_pbar, other,
          timer, slept, since, min_gap>>

\* A transport whose put is conditional: it refuses to write a key that
\* exists.
Natural_put_if_absent(op, key) ==
    IF op = "head" THEN (IF key \in DOMAIN store THEN "ok" ELSE "404")
    ELSE IF op = "get" THEN (IF key \in DOMAIN store THEN "ok" ELSE "NoSuchKey")
    ELSE (IF key \in DOMAIN store THEN "AccessDenied" ELSE "ok")

\* What the transport answers when all goes well.
Natural(op, key) ==
    IF op = "head" THEN (IF key \in DOMAIN store THEN "ok" ELSE "404")
    ELSE IF op = "get" THEN (IF key \in DOMAIN store THEN "ok" ELSE "NoSuchKey")
    ELSE "ok"

\* What the transport may answer to a call.
Results(op, key) ==
    {Natural(op, key)} \cup (IF faults > 0 THEN InjectedErrors ELSE {})

\* The failures left once the transport has answered r.
FaultsAfter(op, key, r) == IF r = Natural(op, key) THEN faults ELSE faults - 1

(***************************************************************************)
(* list_files                                                              *)
(***************************************************************************)
\* The filter of list_files: the key is yielded.
yields(key) == ~ endswith(lower(key), tuple_of_skip_extensions)

\* The keys of the listing that follow the continuation token.
Remaining == SortedKeys({k \in DOMAIN store :
                            startswith(k, prefix) /\ KeyLess(token, k)})

\* A listing whose failure ends the listing and is not raised: main goes on
\* with the keys of the pages before it.
after_list_error_goes_on == "submit"

\* An exception of the listing call leaves list_files and, nothing in main
\* catching it, main: no line after list(list_files(...)) is executed.
after_list_error == "aborted"

\* One page of paginator.paginate(Bucket, Prefix), and what list_files
\* yields from it; a failure of the listing call leaves main().
ListPageStep ==
    /\ main_pc = "list"
    /\ \E r \in {"ok"} \cup (IF faults > 0 THEN {"SlowDown"} ELSE {}) :
        IF r = "ok" THEN
            LET page == SubSeq(Remaining, 1,
                               IF Len(Remaining) < PageSize
                                   THEN Len(Remaining) ELSE PageSize)
            IN  /\ all_files' = all_files \o SelectSeq(page, yields)
                /\ token' = IF page = << >> THEN token ELSE page[Len(page)]
                /\ main_pc' = IF Len(Remaining) <= PageSize
                                  THEN "submit" ELSE "list"
                /\ UNCHANGED faults
        ELSE
            /\ main_pc' = after_list_error
            /\ faults' = faults - 1
            /\ UNCHANGED <<all_files, token>>
    /\ calls' = calls \cup {<<"list", token>>}
    /\ UNCHANGED <<store, prefix, threads, tasks, run, runs_left, prev,
                   callbacks, job_pbar>>

(***************************************************************************)
(* main: the thread pool                                                   *)
(***************************************************************************)
\* No body: what a task holds before get_object has answered (no byte is -1).
NoResponse == <<-1>>

\* A task that has passed its last step.
Terminal == {"Skipped", "Succeeded", "Failed", "Raised"}

\* executor.submit(process_file, object_key, s3_client): the future of one key.
submit(object_key) ==
    [key |-> object_key, st |-> "Pending", invoked |-> 0, attempt |-> 0,
     sibling |-> FALSE, head |-> "none", getlog |-> << >>, response |-> NoResponse,
     md5_hash |-> << >>, putlog |-> << >>, err |-> "none",
     getwaits |-> << >>, putwaits |-> << >>]

\* futures = [executor.submit(...) for object_key in all_files]
futures(files) == [i \in 1..Len(files) |-> submit(files[i])]

SubmitStep ==
    /\ main_pc = "submit"
    /\ tasks' = futures(all_files)
    /\ main_pc' = "pool"
    /\ UNCHANGED <<store, prefix, threads, token, all_files, calls, faults,
                   run, runs_left, prev, callbacks, job_pbar>>

\* A registration that only appends the callback: a future that is done
\* already never calls it.
add_done_callback_append_only(t, n) == n

\* future.add_done_callback(lambda p: job_pbar.update(1)) on the future t,
\* the count being n: a future that is done calls the callback at once, in
\* main's thread.
add_done_callback(t, n) == IF t.st \in Terminal THEN n + 1 ELSE n

\* One turn of "for future in futures: future.add_done_callback(...)".
AddDoneCallbackStep ==
    /\ main_pc = "pool"
    /\ callbacks < Len(tasks)
    /\ callbacks' = callbacks + 1
    /\ job_pbar' = add_done_callback(tasks[callbacks + 1], job_pbar)
    /\ UNCHANGED <<store, prefix, threads, main_pc, token, all_files, tasks,
                   calls, faults, run, runs_left, prev>>

\* Future.set_result at the end of task i, in the worker's thread: the
\* callbacks registered on the future are called, each job_pbar.update(1).
invoke_callbacks(i) ==
    /\ job_pbar' = IF tasks'[i].st \in Terminal /\ i <= callbacks
                      THEN job_pbar + 1 ELSE job_pbar
    /\ UNCHANGED callbacks

\* The tasks a worker thread is executing.
Running == {i \in DOMAIN tasks : tasks[i].st \notin Terminal \cup {"Pending"}}

\* A worker that takes a work item without removing it from the queue.
may_start_without_dequeue(i) ==
    /\ main_pc = "pool"
    /\ Cardinality(Running) < threads

\* A worker is idle and task i is the head of the executor's work queue.
may_start(i) ==
    /\ main_pc = "pool"
    /\ tasks[i].st = "Pending"
    /\ Cardinality(Running) < threads
    /\ \A j \in 1..(i - 1) : tasks[j].st # "Pending"

(***************************************************************************)
(* process_file                                                            *)
(***************************************************************************)
\* A handler that catches the store's ClientError only.
catches_client_errors_only(e) == e \in ClientErrors

\* except Exception: what the handler at the task's boundary catches.
task_boundary_catches(e) == e \in Exceptions

\* The state of a task that an exception e ends.
ended_by(e) == IF task_boundary_catches(e) THEN "Failed" ELSE "Raised"

\* An inner handler that takes every ClientError for "no record".
head_says_absent_any_error(r) == r \in ClientErrors

\* The inner handler of the head call: a ClientError with code 404 is the
\* answer "no record", every other exception goes on to the outer handler.
head_says_absent(r) == r \in ClientErrors /\ r = "404"

\* retry_if_exception_type(botocore.exceptions.ClientError)
retry_if_exception_type(r) == r \in ClientErrors

\* A stop condition that allows one attempt more.
stop_after_six(attempt_number) == attempt_number >= MaxAttempts + 1

\* stop_after_attempt(5)
stop_after_attempt(attempt_number) == attempt_number >= MaxAttempts

Max(a, b) == IF a > b THEN a ELSE b
Min(a, b) == IF a < b THEN a ELSE b

\* A wait whose exponent is the attempt number itself.
wait_exponential_of_attempt_number(attempt_number) ==
    Max(Max(0, 1), Min(1 * 2 ^ attempt_number, 16))

\* wait_exponential(multiplier=1, min=1, max=16): the seconds waited after
\* the failed attempt number attempt_number.
wait_exponential(attempt_number) ==
    Max(Max(0, 1), Min(1 * 2 ^ (attempt_number - 1), 16))

\* What tenacity does with the outcome r of attempt number n of a call:
\* return, retry after the wait, raise RetryError, or let the exception go.
retry_decision(r, n) ==
    IF r = "ok" THEN "return"
    ELSE IF ~ retry_if_exception_type(r) THEN r
    ELSE IF stop_after_attempt(n) THEN RetryError
    ELSE "retry"

\* A head step that takes every exception of the head call for "no record".
after_head_any_error_is_absent(t, r) ==
    IF r = "ok" THEN
        [t EXCEPT !.invoked = @ + 1, !.head = r, !.st = "Skipped"]
    ELSE
        [t EXCEPT !.invoked = @ + 1, !.head = r, !.st = "get", !.attempt = 1]

\* A head step without the early return: an existing record is not skipped.
after_head_without_skip(t, r) ==
    IF r = "ok" \/ head_says_absent(r) THEN
        [t EXCEPT !.invoked = @ + 1, !.head = r, !.st = "get", !.attempt = 1]
    ELSE
        [t EXCEPT !.invoked = @ + 1, !.head = r, !.st = ended_by(r), !.err = r]

\* What the head call makes of task t when the transport answers r.
after_head(t, r) ==
    IF r = "ok" THEN
        [t EXCEPT !.invoked = @ + 1, !.head = r, !.st = "Skipped"]
    ELSE IF head_says_absent(r) THEN
        [t EXCEPT !.invoked = @ + 1, !.head = r, !.st = "get", !.attempt = 1]
    ELSE
        [t EXCEPT !.invoked = @ + 1, !.head = r, !.st = ended_by(r), !.err = r]

\* s3_client.head_object(Key=md5_key), the first step of process_file.
HeadStep(i) ==
    /\ may_start(i)
    /\ LET k == md5_key(tasks[i].key) IN
       \E r \in Results("head", k) :
          /\ calls' = calls \cup {<<"head", k>>}
          /\ faults' = FaultsAfter("head", k, r)
          /\ tasks' = [tasks EXCEPT ![i] =
                [after_head(@, r) EXCEPT !.sibling = (k \in DOMAIN store)]]
    /\ invoke_callbacks(i)
    /\ UNCHANGED <<store, prefix, threads, main_pc, token, all_files,
                   run, runs_left, prev>>

\* What one attempt of rate_limited_get makes of task t when the transport
\* answers r and the object's body is `body`.
after_get(t, r, body) ==
    LET d == retry_decision(r, t.attempt) IN
    IF d = "return" THEN
        [t EXCEPT !.getlog = Append(@, r), !.st = "hash", !.response = body]
    ELSE IF d = "retry" THEN
        [t EXCEPT !.getlog = Append(@, r), !.attempt = @ + 1,
                  !.getwaits = Append(@, wait_exponential(t.attempt))]
    ELSE
        [t EXCEPT !.getlog = Append(@, r), !.st = ended_by(d), !.err = d]

\* One attempt of rate_limited_get(s3_client, BUCKET_NAME, object_key):
\* the sleep, get_object, and what the retry decorator makes of the outcome.
GetStep(i) ==
    /\ i \in DOMAIN tasks
    /\ tasks[i].st = "get"
    /\ LET k == tasks[i].key IN
       \E r \in Results("get", k) :
          /\ calls' = calls \cup {<<"get", k>>}
          /\ faults' = FaultsAfter("get", k, r)
          /\ tasks' = [tasks EXCEPT ![i] =
                after_get(@, r, IF r = "ok" THEN store[k] ELSE NoResponse)]
    /\ invoke_callbacks(i)
    /\ UNCHANGED <<store, prefix, threads, main_pc, token, all_files,
                   run, runs_left, prev>>

\* A hash step that takes a failed read for the end of the stream: the
\* digest of the chunks read before it goes on to the put.
after_hash_of_partial_read(t, r) ==
    IF r = "ok" THEN
        [t EXCEPT !.md5_hash = calc_hash_md5(t.response),
                  !.st = "put", !.attempt = 1]
    ELSE
        [t EXCEPT !.md5_hash = hexdigest(md5_update(md5_new, read(t.response, 0))),
                  !.st = "put", !.attempt = 1]

\* What calc_hash_md5 makes of task t: r is "ok" when every read of the
\* stream answers, and else the exception of the read that fails, which
\* leaves calc_hash_md5 with no digest returned.
after_hash(t, r) ==
    IF r = "ok" THEN
        [t EXCEPT !.md5_hash = calc_hash_md5(t.response),
                  !.st = "put", !.attempt = 1]
    ELSE
        [t EXCEPT !.st = ended_by(r), !.err = r]

\* calc_hash_md5(response['Body'], file_size): the stream is read to its end,
\* or a read fails.
HashStep(i) ==
    /\ i \in DOMAIN tasks
    /\ tasks[i].st = "hash"
    /\ \E r \in {"ok"} \cup (IF faults > 0 THEN {"ConnErr"} ELSE {}) :
          /\ tasks' = [tasks EXCEPT ![i] = after_hash(@, r)]
          /\ faults' = IF r = "ok" THEN faults ELSE faults - 1
    /\ invoke_callbacks(i)
    /\ UNCHANGED <<store, prefix, threads, main_pc, token, all_files, calls,
                   run, runs_left, prev>>

\* s3_client.put_object(Bucket, Key, Body) when it succeeds.
put_object(key, body) ==
    [k \in DOMAIN store \cup {key} |-> IF k = key THEN encode(body) ELSE store[k]]

\* What one attempt of rate_limited_put makes of task t when the transport
\* answers r.
after_put(t, r) ==
    LET d == retry_decision(r, t.attempt) IN
    IF d = "return" THEN
        [t EXCEPT !.putlog = Append(@, r), !.st = "Succeeded"]
    ELSE IF d = "retry" THEN
        [t EXCEPT !.putlog = Append(@, r), !.attempt = @ + 1,
                  !.putwaits = Append(@, wait_exponential(t.attempt))]
    ELSE
        [t EXCEPT !.putlog = Append(@, r), !.st = ended_by(d), !.err = d]

\* One attempt of rate_limited_put(s3_client, BUCKET_NAME, md5_key, body).
PutStep(i) ==
    /\ i \in DOMAIN tasks
    /\ tasks[i].st = "put"
    /\ LET k == md5_key(tasks[i].key) IN
       \E r \in Results("put", k) :
          /\ calls' = calls \cup {<<"put", k>>}
          /\ faults' = FaultsAfter("put", k, r)
          /\ store' = IF r = "ok"
                        THEN put_object(k, record_body(tasks[i].md5_hash,
                                                       tasks[i].key))
                        ELSE store
          /\ tasks' = [tasks EXCEPT ![i] = after_put(@, r)]
    /\ invoke_callbacks(i)
    /\ UNCHANGED <<prefix, threads, main_pc, token, all_files, run, runs_left, prev>>

\* The exit of "with ThreadPoolExecutor(...)": main waits for every task.
ShutdownStep ==
    /\ main_pc = "pool"
    /\ callbacks = Len(tasks)
    /\ \A i \in DOMAIN tasks : tasks[i].st \in Terminal
    /\ main_pc' = "done"
    /\ UNCHANGED <<store, prefix, threads, token, all_files, tasks, calls, faults,
                   run, runs_left, prev, callbacks, job_pbar>>

\* The tool is started again, with the same arguments, on the bucket as the
\* run before left it.
RerunStep ==
    /\ main_pc = "done"
    /\ runs_left > 0
    /\ main_pc' = "list"
    /\ token' = << >>
    /\ all_files' = << >>
    /\ tasks' = << >>
    /\ calls' = {}
    /\ run' = run + 1
    /\ runs_left' = runs_left - 1
    /\ prev' = {tasks[i].st : i \in DOMAIN tasks}
    /\ callbacks' = 0
    /\ job_pbar' = 0
    /\ UNCHANGED <<store, prefix, threads, faults>>

(***************************************************************************)
(* The runs of the tool, without their timing.                             *)
(***************************************************************************)
InitRun ==
    /\ main_pc = "list"
    /\ token = << >>
    /\ all_files = << >>
    /\ tasks = << >>
    /\ calls = {}
    /\ threads \in {1, Threads}
    /\ run = 1
    /\ prev = {}
    /\ callbacks = 0
    /\ job_pbar = 0
    /\ timer = << >>
    /\ slept = {}
    /\ since = SleepTicks
    /\ min_gap = SleepTicks

\* A bucket of several objects, with and without records.
InitMany ==
    /\ store \in {Bucket(FixedContent, S) : S \in SUBSET OptionalKeys}
    /\ prefix \in Prefixes
    /\ faults = MaxFaults
    /\ runs_left = 0

\* A bucket with one object to process, or with two and one worker thread:
\* enough failures to use up the attempts of a call.
InitOne ==
    /\ store \in {Bucket(FixedContent, {}), Bucket(FixedContent, {KEY_B})}
    /\ store = Bucket(FixedContent, {KEY_B}) => threads = 1
    /\ prefix = << >>
    /\ faults = MaxCallFaults
    /\ runs_left = 0

\* A bucket with one object to process, of any content, the transport never
\* failing.
InitContents ==
    /\ store \in {Bucket(c, {}) : c \in Contents}
    /\ prefix = << >>
    /\ faults = 0
    /\ runs_left = 0

\* The tool run twice in succession, the transport never failing.
InitTwice ==
    /\ store \in {Bucket(FixedContent, S) : S \in SUBSET {md5_key(KEY_A)}}
    /\ prefix = << >>
    /\ faults = 0
    /\ runs_left = 1

\* No second process.
NoProcess == << >>

Init ==
    /\ InitRun
    /\ InitMany \/ InitOne \/ InitContents \/ InitTwice
    /\ other = NoProcess

ListPage == ListPageStep /\ UNCHANGED <<tvars, other>>
Submit == SubmitStep /\ UNCHANGED <<tvars, other>>
TaskHead(i) == HeadStep(i) /\ UNCHANGED <<tvars, other>>
TaskGet(i) == GetStep(i) /\ UNCHANGED <<tvars, other>>
TaskHash(i) == HashStep(i) /\ UNCHANGED <<tvars, other>>
TaskPut(i) == PutStep(i) /\ UNCHANGED <<tvars, other>>
Shutdown == ShutdownStep /\ UNCHANGED <<tvars, other>>
Rerun == RerunStep /\ UNCHANGED <<tvars, other>>
AddDoneCallback == AddDoneCallbackStep /\ UNCHANGED <<tvars, other>>

Next ==
    \/ ListPage
    \/ Submit
    \/ \E i \in DOMAIN tasks : TaskHead(i)
    \/ \E i \in DOMAIN tasks : TaskGet(i)
    \/ \E i \in DOMAIN tasks : TaskHash(i)
    \/ \E i \in DOMAIN tasks : TaskPut(i)
    \/ AddDoneCallback
    \/ Shutdown
    \/ Rerun

Spec == Init /\ [][Next]_vars

\* The runs under fair scheduling: main and the pool's worker threads go on
\* running, so a run in which a step can be taken takes a step.
InitFair ==
    /\ InitRun
    /\ \/ /\ store \in {Bucket(FixedContent, {KEY_B}),
                        Bucket(FixedContent, {KEY_B, md5_key(KEY_B)})}
          /\ prefix = << >>
          /\ faults = MaxFaults
          /\ runs_left = 0
       \/ InitTwice
    /\ other = NoProcess

SpecFair == InitFair /\ [][Next]_vars /\ WF_vars(Next)

(***************************************************************************)
(* Two processes of the tool at once on one bucket, started with the same  *)
(* arguments.  The variables of main hold the state of the process that    *)
(* is taking steps and `other` the state of the process that is not; the   *)
(* bucket is the one both work on.                                         *)
(***************************************************************************)
\* What a process of the tool holds of its own.
ProcessState ==
    [main_pc |-> main_pc, token |-> token, all_files |-> all_files,
     tasks |-> tasks, calls |-> calls, callbacks |-> callbacks,
     job_pbar |-> job_pbar]

\* The operating system goes from the one process to the other.
Switch ==
    /\ other # NoProcess
    /\ other' = ProcessState
    /\ main_pc' = other.main_pc
    /\ token' = other.token
    /\ all_files' = other.all_files
    /\ tasks' = other.tasks
    /\ calls' = other.calls
    /\ callbacks' = other.callbacks
    /\ job_pbar' = other.job_pbar
    /\ UNCHANGED <<store, prefix, threads, faults, run, runs_left, prev, tvars>>

\* Both processes are at the start of main; the transport never fails.
InitRace ==
    /\ InitRun
    /\ store \in {Bucket(FixedContent, S) : S \in SUBSET {KEY_B}}
    /\ prefix = << >>
    /\ faults = 0
    /\ runs_left = 0
    /\ other = ProcessState

NextRace ==
    \/ ListPage
    \/ Submit
    \/ \E i \in DOMAIN tasks : TaskHead(i)
    \/ \E i \in DOMAIN tasks : TaskGet(i)
    \/ \E i \in DOMAIN tasks : TaskHash(i)
    \/ \E i \in DOMAIN tasks : TaskPut(i)
    \/ AddDoneCallback
    \/ Shutdown
    \/ Switch

SpecRace == InitRace /\ [][NextRace]_vars

(***************************************************************************)
(* The run of the tool with its timing: every thread's time.sleep and the  *)
(* waits of the retry decorator last their time on a clock of ticks.       *)
(* Thread 0 is main, thread i the worker that executes task i.             *)
(***************************************************************************)
\* The ticks thread th still sleeps.
Timer(th) == IF th \in DOMAIN timer THEN timer[th] ELSE 0

\* time.sleep(n ticks) in thread th.
Sleep(th, n) ==
    [j \in DOMAIN timer \cup {th} |-> IF j = th THEN n ELSE timer[j]]

\* A get, put or list call reaches the store.
StoreCall ==
    /\ min_gap' = Min(min_gap, since)
    /\ since' = 0

\* One tick of the clock passes.
Tick ==
    /\ DOMAIN timer # {} \/ since < SleepTicks
    /\ timer' = [j \in {j \in DOMAIN timer : timer[j] > 1} |-> timer[j] - 1]
    /\ since' = Min(since + 1, SleepTicks)
    /\ UNCHANGED <<store, prefix, threads, main_pc, token, all_files, tasks,
                   calls, faults, run, runs_left, prev, callbacks, job_pbar,
                   other, slept, min_gap>>

\* A page of the listing is fetched, then time.sleep(1 / GET_LIMIT).
RateListPage ==
    /\ Timer(0) = 0
    /\ ListPageStep
    /\ StoreCall
    /\ timer' = IF main_pc' = "aborted" THEN timer ELSE Sleep(0, SleepTicks)
    /\ UNCHANGED <<slept, other>>

RateSubmit == Timer(0) = 0 /\ SubmitStep /\ UNCHANGED <<tvars, other>>

\* head_object is called as it is, with no sleep before it.
RateHead(i) == HeadStep(i) /\ UNCHANGED <<tvars, other>>

\* time.sleep(1 / GET_LIMIT) at the start of an attempt of rate_limited_get
\* or rate_limited_put, once the wait after a failed attempt is over.
RateSleep(i) ==
    /\ i \in DOMAIN tasks
    /\ tasks[i].st \in {"get", "put"}
    /\ i \notin slept
    /\ Timer(i) = 0
    /\ timer' = Sleep(i, SleepTicks)
    /\ slept' = slept \cup {i}
    /\ UNCHANGED <<store, prefix, threads, main_pc, token, all_files, tasks,
                   calls, faults, run, runs_left, prev, callbacks, job_pbar,
                   other, since, min_gap>>

\* The timers after an attempt of task i: the retry decorator waits before
\* the next attempt.
AfterAttempt(i) ==
    /\ slept' = slept \ {i}
    /\ timer' = IF tasks'[i].attempt = tasks[i].attempt + 1
                   THEN Sleep(i, wait_exponential(tasks[i].attempt)
                                    * TicksPerSecond)
                   ELSE timer
    /\ UNCHANGED other

RateGet(i) ==
    /\ i \in slept /\ Timer(i) = 0
    /\ GetStep(i)
    /\ StoreCall
    /\ AfterAttempt(i)

RateHash(i) == HashStep(i) /\ UNCHANGED <<tvars, other>>

RatePut(i) ==
    /\ i \in slept /\ Timer(i) = 0
    /\ PutStep(i)
    /\ StoreCall
    /\ AfterAttempt(i)

RateShutdown == ShutdownStep /\ UNCHANGED <<tvars, other>>
RateAddDoneCallback == AddDoneCallbackStep /\ UNCHANGED <<tvars, other>>

\* A bucket with two objects to process.
InitRate ==
    /\ InitRun
    /\ store = Bucket(FixedContent, {KEY_B})
    /\ prefix = << >>
    /\ faults = RateFaults
    /\ runs_left = 0
    /\ other = NoProcess

NextRate ==
    \/ Tick
    \/ RateListPage
    \/ RateSubmit
    \/ \E i \in DOMAIN tasks : RateHead(i)
    \/ \E i \in DOMAIN tasks : RateSleep(i)
    \/ \E i \in DOMAIN tasks : RateGet(i)
    \/ \E i \in DOMAIN tasks : RateHash(i)
    \/ \E i \in DOMAIN tasks : RatePut(i)
    \/ RateAddDoneCallback
    \/ RateShutdown

SpecRate == InitRate /\ [][NextRate]_vars

(***************************************************************************)
(* Properties.                                                             *)
(***************************************************************************)
\* The key of the checksum record of key k, written out.
RecordKey(k) == k \o <<".", "m", "d", "5">>

\* The classes of store errors the properties speak of, among the errors the
\* store answers with as a ClientError: transient ones (throttling, 5xx) and
\* non-retryable ones (not found, access denied).
Retryable == {"SlowDown"}
Fatal == {"404", "NoSuchKey", "AccessDenied"}

\* The number of entries of log that are r.
Count(log, r) == Cardinality({j \in 1..Len(log) : log[j] = r})

\* The first n transport attempts of the call failed with a Retryable error.
RetryableRun(log, n) ==
    /\ Len(log) >= n
    /\ \A j \in 1..n : log[j] \in Retryable

\* C1, as stated: a task whose head call was issued while the record of its
\* key existed issues no get and no put and ends as Skipped.
C1_RecordExistsThenSkipped ==
    \A i \in DOMAIN tasks :
        tasks[i].sibling =>
            /\ tasks[i].st = "Skipped"
            /\ tasks[i].getlog = << >>
            /\ tasks[i].putlog = << >>

\* C1, amended: a task whose head call was issued while the record of its key
\* existed issues no get and no put; it ends as Skipped, with no failure
\* logged, when the head call answers that the record exists, and as Failed
\* when the head call raises an error.
C1_RecordExistsNoGetNoPut ==
    \A i \in DOMAIN tasks :
        tasks[i].sibling =>
            /\ tasks[i].getlog = << >>
            /\ tasks[i].putlog = << >>
            /\ <<"get", tasks[i].key>> \notin calls
            /\ <<"put", RecordKey(tasks[i].key)>> \notin calls
            /\ tasks[i].head = "ok" =>
                  tasks[i].st = "Skipped" /\ tasks[i].err = "none"
            /\ tasks[i].head # "ok" =>
                  tasks[i].st = "Failed" /\ tasks[i].err = tasks[i].head

C1_Witness ==
    \E i \in DOMAIN tasks :
        /\ tasks[i].sibling
        /\ tasks[i].st = "Skipped"
        /\ RecordKey(tasks[i].key) \in DOMAIN store

\* C2: no error of any step of process_file leaves the task (no future
\* holds an exception); while tasks are unfinished the pool can take a step
\* whatever has failed, and main leaves the pool only with every task ended.
C2_FailureIsolation ==
    /\ \A i \in DOMAIN tasks : tasks[i].st # "Raised"
    /\ main_pc = "pool" => ENABLED Next
    /\ main_pc = "done" =>
          \A i \in DOMAIN tasks : tasks[i].st \in {"Skipped", "Succeeded", "Failed"}

C2_Witness ==
    /\ main_pc = "done"
    /\ \E i, j \in DOMAIN tasks :
          /\ tasks[i].st = "Failed"
          /\ tasks[i].err = RetryError
          /\ tasks[j].st = "Succeeded"

\* The get call of task t has returned its response to process_file.
GetReturned(t) == t.response # NoResponse

\* The put call of task t has returned to process_file.
PutReturned(t) == t.st = "Succeeded"

C4_FatalNotRetried ==
    \A i \in DOMAIN tasks :
        LET t == tasks[i] IN
        /\ Len(t.getlog) >= 1 /\ t.getlog[1] \in Fatal =>
              Len(t.getlog) = 1 /\ t.st = "Failed" /\ t.err = t.getlog[1]
        /\ Len(t.putlog) >= 1 /\ t.putlog[1] \in Fatal =>
              Len(t.putlog) = 1 /\ t.st = "Failed" /\ t.err = t.putlog[1]

\* C6: when a first run has ended with every task Succeeded or Skipped, a
\* second run over the same prefix issues no put call and each of its tasks
\* ends as Skipped.
C6_SecondRunAllSkipped ==
    run = 2 /\ prev \subseteq {"Succeeded", "Skipped"} =>
        /\ \A c \in calls : c[1] # "put"
        /\ \A i \in DOMAIN tasks :
              tasks[i].st \in Terminal => tasks[i].st = "Skipped"

\* hashlib.md5(content).hexdigest(): the hash of the whole content at once.
ReferenceDigest(content) == hexdigest(md5_update(md5_new, content))

\* C7: the record of a key K whose task Succeeded is the object K.md5, and
\* its body is the hex digest of the whole content of K, two spaces, K and a
\* newline; a step writes no object but the record of the task that succeeds
\* in it.
C7_RecordIsDigest ==
    /\ [](\A i \in DOMAIN tasks :
            tasks[i].st = "Succeeded" =>
                /\ RecordKey(tasks[i].key) \in DOMAIN store
                /\ store[RecordKey(tasks[i].key)] =
                      encode(ReferenceDigest(store[tasks[i].key])
                             \o <<" ", " ">> \o tasks[i].key \o <<"\n">>))
    /\ [][\A k \in DOMAIN store' :
            \/ k \in DOMAIN store /\ store'[k] = store[k]
            \/ \E i \in DOMAIN tasks :
                  /\ k = RecordKey(tasks[i].key)
                  /\ tasks[i].st = "put"
                  /\ tasks'[i].st = "Succeeded"]_vars

C7_Witness ==
    \E i \in DOMAIN tasks :
        /\ tasks[i].st = "Succeeded"
        /\ Len(store[tasks[i].key]) > ChunkSize
        /\ Len(store[tasks[i].key]) % ChunkSize # 0

\* The lowercase form of key k ends with an extension of the skip-set.
SkipKey(k) == \E ext \in SKIP_EXTENSIONS : endswith1(lower(k), ext)

\* C8: a key K of the bucket with an extension of the skip-set is never
\* yielded, and no head, get or put is issued for K or for K.md5; when the
\* listing is complete every other key under the prefix was yielded once.
C8_SkipSetUntouched ==
    /\ \A k \in DOMAIN store :
          SkipKey(k) =>
              /\ \A j \in 1..Len(all_files) : all_files[j] # k
              /\ \A op \in {"head", "get", "put"} :
                    <<op, k>> \notin calls /\ <<op, RecordKey(k)>> \notin calls
    /\ main_pc = "submit" =>
          \A k \in DOMAIN store :
              startswith(k, prefix) /\ ~ SkipKey(k) =>
                  Cardinality({j \in 1..Len(all_files) : all_files[j] = k}) = 1

\* C9: every yielded key has exactly one task, which process_file is
\* invoked for at most once (once when it has left Pending); the pool is left
\* with every task Skipped, Succeeded or Failed, and a task that has ended
\* never changes again.
C9_ExactlyOnce ==
    /\ [](main_pc \in {"pool", "done"} =>
            /\ Len(tasks) = Len(all_files)
            /\ \A i \in DOMAIN tasks : tasks[i].key = all_files[i]
            /\ \A i, j \in DOMAIN tasks : i # j => tasks[i].key # tasks[j].key
            /\ \A i \in DOMAIN tasks :
                  tasks[i].invoked = IF tasks[i].st = "Pending" THEN 0 ELSE 1
            /\ main_pc = "done" =>
                  \A i \in DOMAIN tasks :
                      tasks[i].st \in {"Skipped", "Succeeded", "Failed"})
    /\ [][\A i \in DOMAIN tasks :
            tasks[i].st \in Terminal /\ run' = run =>
                i \in DOMAIN tasks' /\ tasks'[i] = tasks[i]]_vars

C9_Witness ==
    /\ main_pc = "done"
    /\ threads = 2
    /\ \E i, j, k \in DOMAIN tasks :
          /\ tasks[i].st = "Skipped"
          /\ tasks[j].st = "Succeeded"
          /\ tasks[k].st = "Failed"

\* C10: in one run a task's put succeeds at most once, no two tasks share a
\* key, and a put to K.md5 is issued only by the task of K and only after
\* its head call answered 404 (not found).
C10_OneRecordPerKey ==
    /\ \A i \in DOMAIN tasks :
          /\ Count(tasks[i].putlog, "ok") <= 1
          /\ tasks[i].putlog # << >> => tasks[i].head = "404"
    /\ \A i, j \in DOMAIN tasks : i # j => tasks[i].key # tasks[j].key
    /\ \A c \in calls :
          c[1] = "put" =>
              \E i \in DOMAIN tasks :
                  /\ c[2] = RecordKey(tasks[i].key)
                  /\ tasks[i].head = "404"
                  /\ tasks[i].putlog # << >>

C10_Witness ==
    \E i \in DOMAIN tasks :
        /\ tasks[i].putlog = <<"SlowDown", "ok">>
        /\ tasks[i].st = "Succeeded"

\* C5: no two store calls (get, put, list page) of all the threads together
\* are closer to each other than 1 / GET_LIMIT.
C5_MinimumSpacing == min_gap >= SleepTicks


\* C11: a task whose head call ends with an error other than 404 (not
\* found) ends as Failed with no get and no put issued, and a task issues a
\* get only after its head call answered 404.
C11_HeadErrorFailsTask ==
    \A i \in DOMAIN tasks :
        LET t == tasks[i] IN
        /\ t.head \notin {"none", "ok", "404"} =>
              /\ t.st = "Failed" /\ t.err = t.head
              /\ t.getlog = << >> /\ t.putlog = << >>
              /\ <<"get", t.key>> \notin calls
              /\ <<"put", RecordKey(t.key)>> \notin calls
        /\ t.getlog # << >> \/ t.st \in {"get", "hash", "put", "Succeeded"} =>
              t.head = "404"

C11_Witness ==
    \E i, j \in DOMAIN tasks :
        /\ tasks[i].head = "AccessDenied" /\ tasks[i].st = "Failed"
        /\ tasks[j].head = "404" /\ tasks[j].getlog # << >>

\* C12: a head call that fails with a Retryable error is tried again by
\* the store client: its one failure does not end the task as Failed.
C12_HeadIsRetried ==
    \A i \in DOMAIN tasks :
        tasks[i].head \in Retryable => tasks[i].st # "Failed"


\* Task i issues a head, get or put call to the transport in this step.
IssuesCall(i) ==
    \/ tasks[i].head = "none" /\ tasks'[i].head # "none"
    \/ Len(tasks'[i].getlog) > Len(tasks[i].getlog)
    \/ Len(tasks'[i].putlog) > Len(tasks[i].putlog)

\* C13: every head, get and put call that reaches the transport, each retry
\* too, is issued by a thread that has slept 1 / GET_LIMIT for this call and
\* whose sleep is over.
C13_EveryCallAcquires ==
    [][\A i \in DOMAIN tasks :
          i \in DOMAIN tasks' /\ IssuesCall(i) => i \in slept /\ Timer(i) = 0]_vars

\* C15: a listing call that fails ends the run there: main never goes on
\* from it, no task is submitted and no head, get or put call is issued,
\* whatever keys the pages before the failure have yielded.
C15_ListFailureAborts ==
    /\ [](main_pc = "aborted" =>
            /\ tasks = << >>
            /\ job_pbar = 0
            /\ \A c \in calls : c[1] = "list")
    /\ [][/\ main_pc = "list" /\ faults' # faults => main_pc' = "aborted"
          /\ main_pc # "aborted"]_vars

C15_Witness ==
    /\ main_pc = "aborted"
    /\ all_files # << >>
    /\ Cardinality(calls) = 2

\* C16: a task issues its get only after its head call answered 404, has
\* its digest only after the get has returned and only as the digest of the
\* whole body, and issues its put only with that digest; so in every state
\* a run can be stopped in, a record written by the run is the digest of the
\* whole body of its key, and a key whose hash was not completed has no record.
C16_OrderedStepsNoPartialRecord ==
    \A i \in DOMAIN tasks :
        LET t == tasks[i] IN
        /\ t.getlog # << >> => t.head = "404"
        /\ t.md5_hash # << >> =>
              GetReturned(t) /\ t.md5_hash = ReferenceDigest(t.response)
        /\ t.st \in {"put", "Succeeded"} \/ t.putlog # << >> => t.md5_hash # << >>
        /\ t.head = "404" /\ t.md5_hash = << >> =>
              RecordKey(t.key) \notin DOMAIN store
        /\ t.head = "404" /\ RecordKey(t.key) \in DOMAIN store =>
              store[RecordKey(t.key)] =
                  encode(ReferenceDigest(store[t.key])
                         \o <<" ", " ">> \o t.key \o <<"\n">>)

C16_Witness ==
    \E i, j \in DOMAIN tasks :
        /\ GetReturned(tasks[i])
        /\ tasks[i].st = "Failed" /\ tasks[i].err = "ConnErr"
        /\ RecordKey(tasks[i].key) \notin DOMAIN store
        /\ tasks[j].st = "Succeeded"

\* The waits of the retry decorator after the failed attempts 1 to 4, in
\* seconds.
BackoffSchedule == <<1, 2, 4, 8>>

\* C18: the wait after failed attempt k of a get or put call, k from 1 to
\* 4, is min(16, 2^(k-1)) seconds, that is 1, 2, 4, 8, never less than 1 or
\* more than 16; each failed attempt that is retried is followed by one wait
\* and the 5th failed attempt by none.
C18_BackoffSchedule ==
    \A i \in DOMAIN tasks :
        LET t == tasks[i] IN
        /\ \A w \in {t.getwaits, t.putwaits} :
              /\ Len(w) <= 4
              /\ \A k \in 1..Len(w) :
                    /\ w[k] = Min(16, 1 * 2 ^ (k - 1))
                    /\ w[k] = BackoffSchedule[k]
                    /\ w[k] >= 1 /\ w[k] <= 16
        /\ t.st = "get" => Len(t.getwaits) = Len(t.getlog)
        /\ t.st = "put" => Len(t.putwaits) = Len(t.putlog)
        /\ Len(t.getlog) = 5 => Len(t.getwaits) = 4
        /\ Len(t.putlog) = 5 => Len(t.putwaits) = 4

C18_Witness ==
    \E i \in DOMAIN tasks :
        /\ tasks[i].getwaits = <<1, 2, 4, 8>>
        /\ Len(tasks[i].getlog) = 5
        /\ tasks[i].err = RetryError

\* C19: no get is issued for the record K.md5 of a key K of the bucket and
\* no put for a record of that record, K.md5.md5.
C19_RecordsNotChecksummed ==
    \A k \in DOMAIN store :
        RecordKey(k) \in DOMAIN store =>
            /\ <<"get", RecordKey(k)>> \notin calls
            /\ <<"put", RecordKey(RecordKey(k))>> \notin calls


\* The tasks whose done-callback has been called: the ended tasks among the
\* futures main has registered the callback on.
Counted == {i \in DOMAIN tasks : tasks[i].st \in Terminal /\ i <= callbacks}

RaceTasks ==
    {<<1, tasks[i]>> : i \in DOMAIN tasks}
        \cup {<<2, other.tasks[i]>> : i \in DOMAIN other.tasks}

\* C17: nothing guards the record of a key against a second process: a
\* task whose head call answered 404 puts the record whatever the other
\* process has written since, so that, the transport not failing, it ends
\* as Succeeded, and the record in the bucket is the one of the later put.
C17_ConcurrentRunsNotGuarded ==
    \A pt \in RaceTasks :
        LET t == pt[2] IN
        /\ t.head = "404" /\ t.st \in Terminal => t.st = "Succeeded"
        /\ t.st = "Succeeded" =>
              /\ t.putlog = <<"ok">>
              /\ store[RecordKey(t.key)] = encode(record_body(t.md5_hash, t.key))

\* Both processes' head of K.md5 answered 404 and both have put K.md5.
C17_Witness ==
    \E pt, qt \in RaceTasks :
        /\ pt[1] = 1 /\ qt[1] = 2
        /\ pt[2].key = qt[2].key
        /\ pt[2].head = "404" /\ qt[2].head = "404"
        /\ pt[2].putlog = <<"ok">> /\ qt[2].putlog = <<"ok">>
        /\ pt[2].st = "Succeeded" /\ qt[2].st = "Succeeded"

=============================================================================
